---- MODULE Spec2Model ----
(***************************************************************************)
(* A model of trystero's room (src/src/room.js): action registry, framing, *)
(* chunking, the flow-controlled send loop, reassembly, the six internal   *)
(* control actions and the peer registry.  One room per peer id; rooms     *)
(* talk over ordered channels supplied by the peer objects.                *)
(***************************************************************************)
EXTENDS Integers, Sequences, FiniteSets, TLC

(***************************************************************************)
(* Frame layout constants (room.js 16-24).                                 *)
(***************************************************************************)
typeByteLimit == 12
typeIndex == 0
nonceIndex == typeIndex + typeByteLimit
tagIndex == nonceIndex + 1
progressIndex == tagIndex + 1
payloadIndex == progressIndex + 1
chunkSize == 16 * 1024 - payloadIndex
oneByteMax == 255

Min(a, b) == IF a < b THEN a ELSE b
Max(a, b) == IF a > b THEN a ELSE b

(***************************************************************************)
(* Byte buffers.  A buffer is a sequence of slices; a slice names a run of *)
(* bytes [lo, hi) of a source: the UTF-8 encoding of a text (k = "utf8",   *)
(* src the text), the content of a binary object (k = "raw") or zero fill  *)
(* (k = "zero").  Two buffers hold the same bytes iff their normal forms   *)
(* (empty slices dropped, adjacent runs of one source merged) are equal.   *)
(***************************************************************************)
Slice(k, src, lo, hi) == [k |-> k, src |-> src, lo |-> lo, hi |-> hi]

RECURSIVE Norm(_)
Norm(s) ==
  IF s = <<>> THEN <<>>
  ELSE LET h == Head(s)
           r == Norm(Tail(s))
       IN IF h.hi <= h.lo THEN r
          ELSE IF r # <<>> /\ r[1].k = h.k /\ r[1].src = h.src /\ h.k = "zero"
            THEN <<[h EXCEPT !.hi = h.hi + (r[1].hi - r[1].lo)]>> \o Tail(r)
          ELSE IF r # <<>> /\ r[1].k = h.k /\ r[1].src = h.src /\ r[1].lo = h.hi
            THEN <<[h EXCEPT !.hi = r[1].hi]>> \o Tail(r)
          ELSE <<h>> \o r

RECURSIVE ByteLength(_)
ByteLength(s) ==
  IF s = <<>> THEN 0 ELSE (Head(s).hi - Head(s).lo) + ByteLength(Tail(s))

Zeros(n) == Norm(<<Slice("zero", "", 0, n)>>)

RECURSIVE Cut(_, _, _)
Cut(s, b, e) ==
  IF s = <<>> \/ e <= b THEN <<>>
  ELSE LET h == Head(s)
           l == h.hi - h.lo
       IN IF b >= l THEN Cut(Tail(s), b - l, e - l)
          ELSE <<[h EXCEPT !.lo = h.lo + b, !.hi = h.lo + Min(e, l)]>>
               \o (IF e > l THEN Cut(Tail(s), 0, e - l) ELSE <<>>)

\* TypedArray.prototype.subarray(begin, end): both ends clamped to the length.
Subarray(s, begin, end) ==
  LET len == ByteLength(s)
      b == Min(Max(begin, 0), len)
      e == Min(Max(end, 0), len)
  IN Norm(Cut(s, b, e))

RangeError == <<Slice("RangeError", "", 0, 1)>>

\* new Uint8Array(size) followed by .set(src, 0): zero fill after src, a
\* RangeError when src does not fit.
FillPayload(size, src) ==
  IF ByteLength(src) > size THEN RangeError
  ELSE Norm(src \o Zeros(size - ByteLength(src)))

(***************************************************************************)
(* Values handed to and received from the room.  t is the kind, v the text *)
(* of a string, n the value of a number, o the key/value pairs of a plain  *)
(* object, b the bytes of a binary value.                                  *)
(***************************************************************************)
Val(t, v, n, o, b) == [t |-> t, v |-> v, n |-> n, o |-> o, b |-> b]
Undefined == Val("undefined", "", 0, <<>>, <<>>)
Null == Val("null", "", 0, <<>>, <<>>)
StrV(s) == Val("string", s, 0, <<>>, <<>>)
NumV(n) == Val("number", "", n, <<>>, <<>>)
ObjV(pairs) == Val("object", "", 0, pairs, <<>>)
BinV(src, len) == Val("binary", "", 0, <<>>, Norm(<<Slice("raw", src, 0, len)>>))
BlobV(src, len) == Val("blob", "", 0, <<>>, Norm(<<Slice("raw", src, 0, len)>>))
BytesV(bytes) == Val("binary", "", 0, <<>>, Norm(bytes))
SyntaxError == Val("SyntaxError", "", 0, <<>>, <<>>)

TypeOf(x) ==
  CASE x.t = "undefined" -> "undefined"
    [] x.t = "string" -> "string"
    [] x.t = "number" -> "number"
    [] OTHER -> "object"

\* JavaScript truthiness.
Truthy(x) ==
  CASE x.t \in {"undefined", "null"} -> FALSE
    [] x.t = "string" -> x.v # ""
    [] x.t = "number" -> x.n # 0
    [] OTHER -> TRUE

IsBlob(x) == x.t = "blob"

(***************************************************************************)
(* utils.js: toJson / fromJson (JSON.stringify / JSON.parse) and           *)
(* encodeBytes / decodeBytes (TextEncoder / TextDecoder).                  *)
(***************************************************************************)
Digit == <<"0", "1", "2", "3", "4", "5", "6", "7", "8", "9">>

RECURSIVE NatText(_)
NatText(n) ==
  IF n < 10 THEN Digit[n + 1] ELSE NatText(n \div 10) \o Digit[(n % 10) + 1]

Quote(s) == "\"" \o s \o "\""

RECURSIVE PairsText(_)
PairsText(ps) ==
  IF ps = <<>> THEN ""
  ELSE Quote(Head(ps)[1]) \o ":" \o Quote(Head(ps)[2])
       \o (IF Len(ps) > 1 THEN "," ELSE "") \o PairsText(Tail(ps))

toJson(x) ==
  CASE x.t = "number" -> NatText(x.n)
    [] x.t = "string" -> Quote(x.v)
    [] x.t = "null" -> "null"
    [] x.t = "object" -> "{" \o PairsText(x.o) \o "}"
    [] OTHER -> "{}"

\* The values JSON.parse can produce here: the parse of a text is the value
\* whose serialisation it is, a SyntaxError when there is none.
mockMeta == ObjV(<<<<"foo", "bar">>, <<"baz", "qux">>>>)

RECURSIVE Repeat(_, _)
\* String.prototype.repeat.
Repeat(str, n) ==
  IF n = 0 THEN ""
  ELSE IF n % 2 = 0 THEN LET h == Repeat(str, n \div 2) IN h \o h
  ELSE str \o Repeat(str, n - 1)

\* A metadata object whose JSON text is longer than one chunk.
bigMeta == ObjV(<<<<"k", Repeat("x", 16 * 1024)>>>>)

JsonValues ==
  {NumV(n) : n \in {0, 1, 33}} \cup {Null, ObjV(<<>>), mockMeta, bigMeta}
  \cup {StrV(s) : s \in {"", "33", "hi"}}

fromJson(text) ==
  IF \E x \in JsonValues : toJson(x) = text
  THEN CHOOSE x \in JsonValues : toJson(x) = text
  ELSE SyntaxError

encodeBytes(text) == Norm(<<Slice("utf8", text, 0, Len(text))>>)

Garbled == "\\uFFFD"

decodeBytes(bytes) ==
  LET s == Norm(bytes)
  IN IF s = <<>> THEN ""
     ELSE IF Len(s) = 1 /\ s[1].k = "utf8" /\ s[1].lo = 0
             /\ s[1].hi = Len(s[1].src)
       THEN s[1].src
     ELSE Garbled

(***************************************************************************)
(* The peers, the action names and the state of the rooms.                 *)
(***************************************************************************)
Ids == {"A", "B", "C"}

\* The two rooms of the test.
Pair == {"A", "B"}

pingType == "__91n6__"
pongType == "__90n6__"
signalType == "__516n4L__"
streamMetaType == "__57r34m__"
trackMetaType == "__7r4ck__"
leaveType == "__l34v3__"
InternalTypes ==
  {pingType, pongType, signalType, streamMetaType, trackMetaType, leaveType}
UserTypes == {"eager", "message", "binary"}
Types == InternalTypes \cup UserTypes

VARIABLES
  peerMap,               \* room -> ids registered, in insertion order
  wired,                 \* room -> ids whose peer object has the room's handlers
  conn,                  \* room -> id -> state of the room's peer object for id
  actions,               \* room -> type -> the action (reg: it exists)
  handles,               \* room -> types whose handles the application holds
  nonce,                 \* room -> type -> the action's nonce counter
  pendingTransmissions,  \* room -> <<id, type, nonce>> -> chunks and meta
  pendingPongs,          \* room -> id -> the pending resolver (0: none)
  onPeerJoin,            \* room -> the peer-joined callback
  onPeerLeave,           \* room -> the peer-left callback
  calls,                 \* the send calls made so far, with their chunking
  loops,                 \* the per-target send loops of the calls
  blobs,                 \* sends awaiting data.arrayBuffer()
  buf,                   \* room -> id -> frames buffered in the channel
  wire,                  \* room -> id -> frames in flight to id
  leaveSt,               \* room -> progress of leave()
  pings,                 \* the ping() invocations and whether each resolved
  pendingStreamMetas,    \* room -> id -> the staged stream metadata
  pendingTrackMetas,     \* room -> id -> the staged track metadata
  onPeerStream,          \* room -> the peer-stream callback
  onPeerTrack,           \* room -> the peer-track callback
  adds,                  \* addStream / addTrack calls awaiting their metadata send
  media,                 \* room -> id -> stream and track additions on their way to id
  log                    \* room -> what the room's callbacks were called with

vars ==
  <<peerMap, wired, conn, actions, handles, nonce, pendingTransmissions,
    pendingPongs, onPeerJoin, onPeerLeave, calls, loops, blobs, buf, wire,
    leaveSt, pings, pendingStreamMetas, pendingTrackMetas, onPeerStream,
    onPeerTrack, adds, media, log>>

\* The state as one record, so that a handler's effect is a function of it.
State ==
  [peerMap |-> peerMap, wired |-> wired, conn |-> conn, actions |-> actions,
   handles |-> handles, nonce |-> nonce,
   pendingTransmissions |-> pendingTransmissions,
   pendingPongs |-> pendingPongs, onPeerJoin |-> onPeerJoin,
   onPeerLeave |-> onPeerLeave, calls |-> calls, loops |-> loops,
   blobs |-> blobs, buf |-> buf, wire |-> wire, leaveSt |-> leaveSt,
   pings |-> pings, pendingStreamMetas |-> pendingStreamMetas,
   pendingTrackMetas |-> pendingTrackMetas, onPeerStream |-> onPeerStream,
   onPeerTrack |-> onPeerTrack, adds |-> adds, media |-> media, log |-> log]

Starts(s) ==
  /\ peerMap = s.peerMap
  /\ wired = s.wired
  /\ conn = s.conn
  /\ actions = s.actions
  /\ handles = s.handles
  /\ nonce = s.nonce
  /\ pendingTransmissions = s.pendingTransmissions
  /\ pendingPongs = s.pendingPongs
  /\ onPeerJoin = s.onPeerJoin
  /\ onPeerLeave = s.onPeerLeave
  /\ calls = s.calls
  /\ loops = s.loops
  /\ blobs = s.blobs
  /\ buf = s.buf
  /\ wire = s.wire
  /\ leaveSt = s.leaveSt
  /\ pings = s.pings
  /\ pendingStreamMetas = s.pendingStreamMetas
  /\ pendingTrackMetas = s.pendingTrackMetas
  /\ onPeerStream = s.onPeerStream
  /\ onPeerTrack = s.onPeerTrack
  /\ adds = s.adds
  /\ media = s.media
  /\ log = s.log

Becomes(s) ==
  /\ peerMap' = s.peerMap
  /\ wired' = s.wired
  /\ conn' = s.conn
  /\ actions' = s.actions
  /\ handles' = s.handles
  /\ nonce' = s.nonce
  /\ pendingTransmissions' = s.pendingTransmissions
  /\ pendingPongs' = s.pendingPongs
  /\ onPeerJoin' = s.onPeerJoin
  /\ onPeerLeave' = s.onPeerLeave
  /\ calls' = s.calls
  /\ loops' = s.loops
  /\ blobs' = s.blobs
  /\ buf' = s.buf
  /\ wire' = s.wire
  /\ leaveSt' = s.leaveSt
  /\ pings' = s.pings
  /\ pendingStreamMetas' = s.pendingStreamMetas
  /\ pendingTrackMetas' = s.pendingTrackMetas
  /\ onPeerStream' = s.onPeerStream
  /\ onPeerTrack' = s.onPeerTrack
  /\ adds' = s.adds
  /\ media' = s.media
  /\ log' = s.log

NoLog ==
  [completed |-> <<>>, progress |-> <<>>, sent |-> <<>>, handed |-> <<>>,
   joined |-> <<>>, left |-> <<>>, thrown |-> <<>>, warned |-> <<>>,
   events |-> <<>>, media |-> <<>>, selfLeft |-> 0]

Note(s, self, field, x) == [s EXCEPT !.log[self][field] = Append(@, x)]

\* room.js 89-92: a fresh action.
NewAction == [reg |-> TRUE, onComplete |-> "noOp", onProgress |-> "noOp"]
NoAction == [reg |-> FALSE, onComplete |-> "noOp", onProgress |-> "noOp"]

InPeerMap(s, self, id) == \E i \in 1..Len(s.peerMap[self]) : s.peerMap[self][i] = id

RECURSIVE Without(_, _)
Without(seq, x) ==
  IF seq = <<>> THEN <<>>
  ELSE IF Head(seq) = x THEN Without(Tail(seq), x)
  ELSE <<Head(seq)>> \o Without(Tail(seq), x)

(***************************************************************************)
(* send: argument checks, classification and chunking (room.js 97-161).    *)
(***************************************************************************)
B2N(b) == IF b THEN 1 ELSE 0
CeilDiv(a, b) == (a + b - 1) \div b
\* Math.round(x / y) for x >= 0, y > 0: halves round up.
Round(x, y) == (2 * x + y) \div (2 * y)

sendError(data, meta) ==
  IF Truthy(meta) /\ TypeOf(meta) # "object"
    THEN "action meta argument must be an object"
  ELSE IF TypeOf(data) = "undefined" THEN "action data cannot be undefined"
  ELSE IF Truthy(meta) /\ data.t \notin {"binary", "blob"}
    THEN "action meta argument can only be used with binary data"
  ELSE ""

isJsonOf(data) == TypeOf(data) # "string"
isBinaryOf(data) == data.t \in {"binary", "blob"}

bufferOf(data) ==
  IF isBinaryOf(data) THEN data.b
  ELSE encodeBytes(IF isJsonOf(data) THEN toJson(data) ELSE data.v)

metaEncodedOf(meta) == IF Truthy(meta) THEN encodeBytes(toJson(meta)) ELSE <<>>

\* A mutant of chunkTotalOf: the metadata chunk is not counted.
chunkTotalOf_noMeta(buffer, meta) ==
  LET n == CeilDiv(ByteLength(buffer), chunkSize)
  IN IF n = 0 THEN 1 ELSE n

chunkTotalOf(buffer, meta) ==
  LET n == CeilDiv(ByteLength(buffer), chunkSize) + B2N(Truthy(meta))
  IN IF n = 0 THEN 1 ELSE n

\* A mutant of tagOf: the JSON bit is never set.
tagOf_noJsonBit(isLast, isMeta, isBinary, isJson) ==
  (B2N(isLast) + 2 * B2N(isMeta) + 4 * B2N(isBinary)) % 256

tagOf(isLast, isMeta, isBinary, isJson) ==
  (B2N(isLast) + 2 * B2N(isMeta) + 4 * B2N(isBinary) + 8 * B2N(isJson)) % 256

\* A mutant of progressOf: the position counted from 0.
progressOf_fromZero(i, chunkTotal) == Round(i * oneByteMax, chunkTotal) % 256

progressOf(i, chunkTotal) == Round((i + 1) * oneByteMax, chunkTotal) % 256

chunkPayloadSize(c, i) ==
  LET isLast == i = c.chunkTotal - 1
      isMeta == Truthy(c.meta) /\ i = 0
  IN IF isMeta THEN ByteLength(c.metaEncoded)
     ELSE IF isLast
       THEN ByteLength(c.buffer)
            - chunkSize * (c.chunkTotal - (IF Truthy(c.meta) THEN 2 ELSE 1))
     ELSE chunkSize

chunkContent(c, i) ==
  IF Truthy(c.meta)
  THEN IF i = 0 THEN c.metaEncoded
       ELSE Subarray(c.buffer, (i - 1) * chunkSize, i * chunkSize)
  ELSE Subarray(c.buffer, i * chunkSize, (i + 1) * chunkSize)

\* Chunk i (from 0) of call c, as the frame read back field by field.
chunkOf(c, i) ==
  LET isLast == i = c.chunkTotal - 1
      isMeta == Truthy(c.meta) /\ i = 0
  IN [type |-> [name |-> c.type, pad |-> typeByteLimit - Len(c.type)],
      nonce |-> c.nonce % 256,
      tag |-> tagOf(isLast, isMeta, c.isBinary, c.isJson),
      progress |-> progressOf(i, c.chunkTotal),
      payload |-> FillPayload(chunkPayloadSize(c, i), chunkContent(c, i))]

newCall(self, type, n, data, meta, cb) ==
  LET buffer == bufferOf(data)
  IN [self |-> self, type |-> type, nonce |-> n, data |-> data, meta |-> meta,
      buffer |-> buffer, metaEncoded |-> metaEncodedOf(meta),
      isBinary |-> isBinaryOf(data), isJson |-> isJsonOf(data),
      chunkTotal |-> chunkTotalOf(buffer, meta), cb |-> cb]

(***************************************************************************)
(* The send loop of one target (room.js 164-190).  bufferedAmount is       *)
(* counted in frames.  A loop runs without interruption from where it      *)
(* starts (or is woken) to where it next waits or ends.                    *)
(***************************************************************************)
LowThreshold == 1

bufferedAmount(s, self, id) == Len(s.buf[self][id])

\* room.js 186-188: hand chunk chunkN to the channel, count it, report it.
sendChunk(s, li) ==
  LET l == s.loops[li]
      c == s.calls[l.call]
      chunk == chunkOf(c, l.chunkN)
      s1 == [s EXCEPT !.buf[c.self][l.id] = Append(@, chunk),
                      !.loops[li].chunkN = @ + 1,
                      !.log[c.self].handed =
                        Append(@, [call |-> l.call, id |-> l.id, i |-> l.chunkN,
                                   above |-> bufferedAmount(s, c.self, l.id)
                                               > LowThreshold])]
  IN IF c.cb
     THEN Note(s1, c.self, "sent",
               [call |-> l.call, p |-> chunk.progress, id |-> l.id, meta |-> c.meta])
     ELSE s1

RECURSIVE loopTop(_, _)
RECURSIVE afterWait(_, _)
\* room.js 168-180: the loop condition and the backpressure test.
loopTop(s, li) ==
  LET l == s.loops[li]
      c == s.calls[l.call]
  IN IF l.chunkN >= c.chunkTotal THEN [s EXCEPT !.loops[li].st = "done"]
     ELSE IF bufferedAmount(s, c.self, l.id) > LowThreshold
       THEN [s EXCEPT !.loops[li].st = "waiting"]
     ELSE afterWait(s, li)

\* The loop body without the registry test (room.js 182-184).
afterWait_noRegistryTest(s, li) == loopTop(sendChunk(s, li), li)

\* room.js 182-189: after the wait (if any): the registry test, then the send.
afterWait(s, li) ==
  LET l == s.loops[li]
      c == s.calls[l.call]
  IN IF ~InPeerMap(s, c.self, l.id) THEN [s EXCEPT !.loops[li].st = "done"]
     ELSE loopTop(sendChunk(s, li), li)

\* room.js 34-49 and 163-164: iterate over the targets, one loop per
\* registered id, a warning for each other id.
idsOf(s, self, targets) ==
  IF targets.kind = "all" THEN s.peerMap[self] ELSE targets.ids

\* iterate that gives up at the first id without a peer.
RECURSIVE iterateLoops_stopAtUnknown(_, _, _, _)
iterateLoops_stopAtUnknown(s, self, ci, ids) ==
  IF ids = <<>> THEN s
  ELSE IF ~InPeerMap(s, self, Head(ids))
    THEN Note(s, self, "warned", Head(ids))
  ELSE LET s1 == [s EXCEPT !.loops =
                    Append(@, [call |-> ci, id |-> Head(ids), chunkN |-> 0,
                               st |-> "run"])]
       IN iterateLoops_stopAtUnknown(loopTop(s1, Len(s1.loops)), self, ci, Tail(ids))

RECURSIVE iterateLoops(_, _, _, _)
iterateLoops(s, self, ci, ids) ==
  IF ids = <<>> THEN s
  ELSE IF ~InPeerMap(s, self, Head(ids))
    THEN iterateLoops(Note(s, self, "warned", Head(ids)), self, ci, Tail(ids))
  ELSE LET s1 == [s EXCEPT !.loops =
                    Append(@, [call |-> ci, id |-> Head(ids), chunkN |-> 0,
                               st |-> "run"])]
       IN iterateLoops(loopTop(s1, Len(s1.loops)), self, ci, Tail(ids))

\* A counter of seven bits.
nextNonce_sevenBits(n) == (n + 1) % 128

\* room.js 161: the nonce after a send.
nextNonce(n) == (n + 1) % (oneByteMax + 1)

\* room.js 121-191: chunk, advance the nonce, start the loops.
sendChunked(s, self, type, data, targets, meta, cb) ==
  LET c == newCall(self, type, s.nonce[self][type], data, meta, cb)
  IN IF \E i \in 0..(c.chunkTotal - 1) : chunkOf(c, i).payload = RangeError
     THEN Note(s, self, "thrown", "RangeError")
     ELSE LET s1 == [s EXCEPT !.nonce[self][type] = nextNonce(@),
                              !.calls = Append(@, c)]
          IN iterateLoops(s1, self, Len(s1.calls), idsOf(s1, self, targets))

\* room.js 97-119: send up to the chunking; a Blob is read first.
send(s, self, type, data, targets, meta, cb) ==
  IF sendError(data, meta) # "" THEN Note(s, self, "thrown", sendError(data, meta))
  ELSE IF IsBlob(data)
    THEN [s EXCEPT !.blobs = Append(@, [self |-> self, type |-> type,
            data |-> data, targets |-> targets, meta |-> meta, cb |-> cb])]
  ELSE sendChunked(s, self, type, data, targets, meta, cb)

One(id) == [kind |-> "list", ids |-> <<id>>]
All == [kind |-> "all", ids |-> <<>>]

\* Whether send call ci has returned its completion signal (Promise.all).
Returned(s, ci) ==
  \A li \in 1..Len(s.loops) : s.loops[li].call = ci => s.loops[li].st = "done"

(***************************************************************************)
(* exitPeer (room.js 51-60) and the callbacks.                             *)
(***************************************************************************)
UserCallbacks == {"f", "g"}

callOnPeerLeave(s, self, id) ==
  IF s.onPeerLeave[self] = "noOp" THEN s ELSE Note(s, self, "left", id)

\* exitPeer without its first test (room.js 52-54).
exitPeer_unguarded(s, self, id) ==
  LET pt == s.pendingTransmissions[self]
      s1 == [s EXCEPT
               !.peerMap[self] = Without(@, id),
               !.pendingTransmissions[self] =
                 [k \in {x \in DOMAIN pt : x[1] # id} |-> pt[k]],
               !.pendingPongs[self][id] = 0]
  IN callOnPeerLeave(s1, self, id)

exitPeer(s, self, id) ==
  IF ~InPeerMap(s, self, id) THEN s
  ELSE LET pt == s.pendingTransmissions[self]
           s1 == [s EXCEPT
                    !.peerMap[self] = Without(@, id),
                    !.pendingTransmissions[self] =
                      [k \in {x \in DOMAIN pt : x[1] # id} |-> pt[k]],
                    !.pendingPongs[self][id] = 0]
       IN callOnPeerLeave(s1, self, id)

\* room.js 295-308: the completion handlers of the internal actions, and an
\* application callback, which is recorded.
callOnComplete(s, self, type, value, id, meta) ==
  LET h == s.actions[self][type].onComplete
      e == Note(s, self, "events", [ev |-> h, type |-> type, id |-> id])
  IN CASE h = "getPing" -> send(e, self, pongType, StrV(""), One(id), Undefined, FALSE)
       [] h = "getPong" ->
            LET r == e.pendingPongs[self][id]
                s1 == IF r = 0 THEN e ELSE [e EXCEPT !.pings[r].resolved = TRUE]
            IN [s1 EXCEPT !.pendingPongs[self][id] = 0]
       [] h = "getLeave" -> exitPeer(e, self, id)
       [] h = "getStreamMeta" -> [e EXCEPT !.pendingStreamMetas[self][id] = value]
       [] h = "getTrackMeta" -> [e EXCEPT !.pendingTrackMetas[self][id] = value]
       [] h \in UserCallbacks ->
            Note(e, self, "completed",
                 [h |-> h, type |-> type, value |-> value, id |-> id, meta |-> meta])
       [] OTHER -> e

\* The action's progress callback, called with (p / 255, id, meta); the record
\* also keeps the transmission's nonce, which the callback is not given.
callOnProgress(s, self, key, p, meta) ==
  LET h == s.actions[self][key[2]].onProgress
  IN IF h \in UserCallbacks
     THEN Note(s, self, "progress",
               [h |-> h, type |-> key[2], nonce |-> key[3], p |-> p,
                id |-> key[1], meta |-> meta])
     ELSE s

(***************************************************************************)
(* handleData (room.js 202-255).                                           *)
(***************************************************************************)
RECURSIVE Flatten(_)
Flatten(chunks) ==
  IF chunks = <<>> THEN <<>>
  ELSE IF Len(chunks) = 1 THEN chunks[1]
  ELSE LET h == Len(chunks) \div 2
       IN Norm(Flatten(SubSeq(chunks, 1, h))
               \o Flatten(SubSeq(chunks, h + 1, Len(chunks))))

Bit(tag, k) == (tag \div (2 ^ k)) % 2 = 1

\* The reassembly store keyed without the nonce.
entryKey_noNonce(id, type, n) == <<id, type, 0>>

\* room.js 221-229: pendingTransmissions[id][type][nonce].
entryKey(id, type, n) == <<id, type, n>>

\* room.js 221-255: the frame is added to its transmission, progress is
\* reported, and the last frame completes and removes the transmission.
reassemble(s, self, id, data) ==
  LET type == data.type.name
      isLast == Bit(data.tag, 0)
      isMeta == Bit(data.tag, 1)
      isBinary == Bit(data.tag, 2)
      isJson == Bit(data.tag, 3)
      key == entryKey(id, type, data.nonce)
      pt == s.pendingTransmissions[self]
      old == IF key \in DOMAIN pt THEN pt[key]
             ELSE [chunks |-> <<>>, meta |-> Undefined]
      target == IF isMeta
                THEN [old EXCEPT !.meta = fromJson(decodeBytes(data.payload))]
                ELSE [old EXCEPT !.chunks = Append(@, data.payload)]
      s1 == [s EXCEPT !.pendingTransmissions[self] =
               [k \in DOMAIN pt \cup {key} |-> IF k = key THEN target ELSE pt[k]]]
      s2 == callOnProgress(s1, self, key, data.progress, target.meta)
      full == Norm(Flatten(target.chunks))
      pt2 == s2.pendingTransmissions[self]
      s3 == [s2 EXCEPT !.pendingTransmissions[self] =
               [k \in DOMAIN pt2 \ {key} |-> pt2[k]]]
  IN IF ~isLast THEN s2
     ELSE IF isBinary
       THEN callOnComplete(s3, self, type, BytesV(full), id, target.meta)
     ELSE LET text == decodeBytes(full)
          IN callOnComplete(s3, self, type,
                            IF isJson THEN fromJson(text) ELSE StrV(text),
                            id, Undefined)

\* handleData with the test for the type made after the frame was stored.
handleData_lateCheck(s, self, id, data) ==
  LET s1 == reassemble(s, self, id, data)
  IN IF ~s.actions[self][data.type.name].reg
     THEN Note(s1, self, "thrown", "received message with unregistered type")
     ELSE s1

\* room.js 202-219: the header is read; a type without an action throws.
handleData(s, self, id, data) ==
  IF ~s.actions[self][data.type.name].reg
  THEN Note(s, self, "thrown", "received message with unregistered type")
  ELSE reassemble(s, self, id, data)

(***************************************************************************)
(* makeAction and the setters (room.js 62-95, 195-199).                    *)
(***************************************************************************)
IsAction(s, self, type) == type \in Types /\ s.actions[self][type].reg

\* makeAction without its first test (room.js 63-69): a repeated call builds
\* the action anew.
makeAction_anew(s, self, type) ==
  IF type = "" THEN Note(s, self, "thrown", "action type argument is required")
  ELSE IF Len(type) > typeByteLimit
    THEN Note(s, self, "thrown", "action type string exceeds byte limit")
  ELSE [s EXCEPT !.actions[self][type] = NewAction, !.nonce[self][type] = 0]

makeAction(s, self, type) ==
  IF IsAction(s, self, type) THEN s
  ELSE IF type = "" THEN Note(s, self, "thrown", "action type argument is required")
  ELSE IF Len(type) > typeByteLimit
    THEN Note(s, self, "thrown", "action type string exceeds byte limit")
  ELSE [s EXCEPT !.actions[self][type] = NewAction, !.nonce[self][type] = 0]

setOnComplete(s, self, type, f) == [s EXCEPT !.actions[self][type].onComplete = f]

setOnProgress(s, self, type, f) == [s EXCEPT !.actions[self][type].onProgress = f]

\* room.js 257-262 and 295-308: the internal actions and their handlers.
InternalHandler ==
  [t \in InternalTypes |->
     CASE t = pingType -> "getPing"
       [] t = pongType -> "getPong"
       [] t = signalType -> "getSignal"
       [] t = streamMetaType -> "getStreamMeta"
       [] t = trackMetaType -> "getTrackMeta"
       [] OTHER -> "getLeave"]

\* room.js 26-32, 257-267: a room as constructed.
NewRooms ==
  [peerMap |-> [p \in Ids |-> <<>>],
   wired |-> [p \in Ids |-> {}],
   conn |-> [p \in Ids |-> [q \in Ids |-> "new"]],
   actions |-> [p \in Ids |-> [t \in Types |->
                  IF t \in InternalTypes
                  THEN [NewAction EXCEPT !.onComplete = InternalHandler[t]]
                  ELSE NoAction]],
   handles |-> [p \in Ids |-> {}],
   nonce |-> [p \in Ids |-> [t \in Types |-> 0]],
   pendingTransmissions |-> [p \in Ids |-> <<>>],
   pendingPongs |-> [p \in Ids |-> [q \in Ids |-> 0]],
   onPeerJoin |-> [p \in Ids |-> "noOp"],
   onPeerLeave |-> [p \in Ids |-> "noOp"],
   calls |-> <<>>,
   loops |-> <<>>,
   blobs |-> <<>>,
   buf |-> [p \in Ids |-> [q \in Ids |-> <<>>]],
   wire |-> [p \in Ids |-> [q \in Ids |-> <<>>]],
   leaveSt |-> [p \in Ids |-> [st |-> "idle", call |-> 0]],
   pings |-> <<>>,
   pendingStreamMetas |-> [p \in Ids |-> [q \in Ids |-> Undefined]],
   pendingTrackMetas |-> [p \in Ids |-> [q \in Ids |-> Undefined]],
   onPeerStream |-> [p \in Ids |-> "noOp"],
   onPeerTrack |-> [p \in Ids |-> "noOp"],
   adds |-> <<>>,
   media |-> [p \in Ids |-> [q \in Ids |-> <<>>]],
   log |-> [p \in Ids |-> NoLog]]

(***************************************************************************)
(* The operations of the room facade and the events of the peer objects.   *)
(***************************************************************************)
\* room.makeAction(type), the handles kept by the application.
appMakeAction(s, self, type) ==
  LET s1 == makeAction(s, self, type)
  IN IF IsAction(s1, self, type)
     THEN [s1 EXCEPT !.handles[self] = @ \cup {type}]
     ELSE s1

eagerPayload == NumV(33)

\* room.js 292: onPeerJoin(id).  The callback "eager" is that of the test
\* (part_000 77): peerId => sendEager(payload, peerId).
callOnPeerJoin(s, self, id) ==
  LET cb == s.onPeerJoin[self]
      s1 == Note(s, self, "joined", [id |-> id, cb |-> cb])
  IN IF cb = "noOp" THEN s
     ELSE IF cb = "eager"
       THEN send(s1, self, "eager", eagerPayload, One(id), Undefined, FALSE)
     ELSE s1

\* onPeer with the join callback called before the peer is registered.
onPeer_callbackFirst(s, self, id) ==
  IF InPeerMap(s, self, id) THEN s
  ELSE LET s1 == callOnPeerJoin(s, self, id)
       IN [s1 EXCEPT !.peerMap[self] = Append(@, id),
                     !.wired[self] = @ \cup {id},
                     !.conn[self][id] = "open"]

\* onPeer without the test for a registered id.
onPeer_unguarded(s, self, id) ==
  LET s1 == [s EXCEPT !.peerMap[self] = Append(@, id),
                      !.wired[self] = @ \cup {id},
                      !.conn[self][id] = "open"]
  IN callOnPeerJoin(s1, self, id)

\* room.js 269-293: the join callback given to onPeer.
onPeer(s, self, id) ==
  IF InPeerMap(s, self, id) THEN s
  ELSE LET s1 == [s EXCEPT !.peerMap[self] = Append(@, id),
                           !.wired[self] = @ \cup {id},
                           !.conn[self][id] = "open"]
       IN callOnPeerJoin(s1, self, id)

\* room.js 313-323: ping(id).
ping(s, self, id) ==
  IF id = "" THEN Note(s, self, "thrown", "ping() must be called with target peer ID")
  ELSE LET s1 == send(s, self, pingType, StrV(""), One(id), Undefined, FALSE)
           s2 == [s1 EXCEPT !.pings = Append(@, [self |-> self, id |-> id,
                                                  resolved |-> FALSE])]
       IN [s2 EXCEPT !.pendingPongs[self][id] = Len(s2.pings)]

\* room.js 325-326: leave() up to the wait for the leave broadcast.
leave(s, self) ==
  LET s1 == send(s, self, leaveType, StrV(""), All, Undefined, FALSE)
  IN [s1 EXCEPT !.leaveSt[self] = [st |-> "leaving", call |-> Len(s1.calls)]]

\* room.js 327-332: after the broadcast and the grace period.
RECURSIVE killAll(_, _, _)
killAll(s, self, ids) ==
  IF ids = <<>> THEN s
  ELSE killAll([s EXCEPT !.conn[self][Head(ids)] = "closed",
                         !.peerMap[self] = Without(@, Head(ids))],
               self, Tail(ids))

leaveEnd(s, self) ==
  LET s1 == killAll(s, self, s.peerMap[self])
  IN [s1 EXCEPT !.leaveSt[self].st = "left", !.log[self].selfLeft = @ + 1]

\* The channel hands its oldest buffered frame to the network; when that takes
\* bufferedAmount from above the threshold to it or below, bufferedamountlow
\* fires and every loop waiting on the channel resumes after its wait, in the
\* order the loops registered.
RECURSIVE wake(_, _)
wake(s, lis) ==
  IF lis = <<>> THEN s
  ELSE IF Len(lis) = 1 THEN afterWait(s, lis[1])
  ELSE LET h == Len(lis) \div 2
           s1 == wake(s, SubSeq(lis, 1, h))
       IN IF s1 = s THEN wake(s, SubSeq(lis, h + 1, Len(lis)))
          ELSE wake(s1, SubSeq(lis, h + 1, Len(lis)))

waiting(s, self, id) ==
  SelectSeq([li \in 1..Len(s.loops) |-> li],
            LAMBDA li : /\ s.loops[li].st = "waiting"
                        /\ s.loops[li].id = id
                        /\ s.calls[s.loops[li].call].self = self)

transmit(s, self, id) ==
  LET s1 == [s EXCEPT !.buf[self][id] = Tail(@),
                      !.wire[self][id] = Append(@, Head(s.buf[self][id]))]
  IN IF bufferedAmount(s, self, id) > LowThreshold
        /\ bufferedAmount(s1, self, id) <= LowThreshold
     THEN wake(s1, waiting(s1, self, id))
     ELSE s1

\* The frame at the head of the wire reaches the receiver's onData.
deliver(s, from, to) ==
  handleData([s EXCEPT !.wire[from][to] = Tail(@)], to, from, Head(s.wire[from][to]))

\* The peer object of self for id closes after the remote side was killed:
\* frames still in flight are lost and onClose runs (room.js 289).
remoteClose(s, self, id) ==
  exitPeer(Note([s EXCEPT !.conn[self][id] = "closed", !.wire[id][self] = <<>>],
                self, "events", [ev |-> "onClose", type |-> "", id |-> id]),
           self, id)

MakeAction(self, type) ==
  /\ type \notin handles[self]
  /\ Becomes(appMakeAction(State, self, type))

SetOnComplete(self, type, f) ==
  /\ type \in handles[self]
  /\ actions[self][type].onComplete # f
  /\ Becomes(setOnComplete(State, self, type, f))

SetOnProgress(self, type, f) ==
  /\ type \in handles[self]
  /\ actions[self][type].onProgress # f
  /\ Becomes(setOnProgress(State, self, type, f))

SetOnPeerJoin(self, f) ==
  /\ onPeerJoin[self] # f
  /\ f = "eager" => "eager" \in handles[self]
  /\ Becomes([State EXCEPT !.onPeerJoin[self] = f])

SetOnPeerLeave(self, f) ==
  /\ onPeerLeave[self] # f
  /\ Becomes([State EXCEPT !.onPeerLeave[self] = f])

Send(self, type, data, targets, meta, cb, max) ==
  /\ type \in handles[self]
  /\ Len(calls) + Len(blobs) + Len(log[self].thrown) < max
  /\ Becomes(send(State, self, type, data, targets, meta, cb))

BlobReady(i) ==
  /\ i \in 1..Len(blobs)
  /\ LET b == blobs[i]
         s1 == [State EXCEPT !.blobs = SubSeq(@, 1, i - 1) \o SubSeq(@, i + 1, Len(@))]
     IN Becomes(sendChunked(s1, b.self, b.type, b.data, b.targets, b.meta, b.cb))

Join(self, id) ==
  /\ self # id
  /\ leaveSt[self].st # "left"
  /\ \/ conn[self][id] = "new" /\ conn[id][self] # "closed"
     \/ InPeerMap(State, self, id)
  /\ Becomes(onPeer(State, self, id))

Ping(self, id, max) ==
  /\ self # id
  /\ Len(pings) < max
  /\ Becomes(ping(State, self, id))

Leave(self) ==
  /\ leaveSt[self].st = "idle"
  /\ Becomes(leave(State, self))

LeaveEnd(self) ==
  /\ leaveSt[self].st = "leaving"
  /\ Returned(State, leaveSt[self].call)
  /\ Becomes(leaveEnd(State, self))

Transmit(self, id) ==
  /\ conn[self][id] = "open"
  /\ buf[self][id] # <<>>
  /\ Becomes(transmit(State, self, id))

Deliver(from, to) ==
  /\ wire[from][to] # <<>>
  /\ from \in wired[to]
  /\ conn[to][from] = "open"
  /\ Becomes(deliver(State, from, to))

RemoteClose(self, id) ==
  /\ conn[id][self] = "closed"
  /\ conn[self][id] = "open"
  /\ Becomes(remoteClose(State, self, id))

(***************************************************************************)
(* Transfers from A to B: both rooms constructed, the actions "message"    *)
(* and "binary" made on both, B's callbacks set, each peer joined to the   *)
(* other; then A sends payloads of the menu.                               *)
(***************************************************************************)
MaxCalls == 2

RECURSIVE MakeAll(_, _, _)
MakeAll(s, self, types) ==
  IF types = <<>> THEN s
  ELSE MakeAll(appMakeAction(s, self, Head(types)), self, Tail(types))

Listening(s, self, types) ==
  LET s1 == MakeAll(s, self, types)
      s2 == setOnComplete(setOnProgress(s1, self, types[1], "g"), self, types[1], "f")
  IN setOnComplete(setOnProgress(s2, self, types[2], "g"), self, types[2], "f")

Linked ==
  LET s1 == Listening(MakeAll(NewRooms, "A", <<"message", "binary">>), "B",
                      <<"message", "binary">>)
  IN onPeer(onPeer(s1, "A", "B"), "B", "A")

Entry(type, data, meta) == [type |-> type, data |-> data, meta |-> meta]

XferSizes ==
  {0, 1, chunkSize - 1, chunkSize, chunkSize + 1, 2 * chunkSize, 2 * chunkSize + 1}

XferMenu ==
  {Entry("binary", BinV(NatText(n), n), m) : n \in XferSizes, m \in {Undefined, mockMeta}}
  \cup {Entry("binary", BlobV("blob", chunkSize + 1), mockMeta),
        Entry("binary", BinV("y", 2), bigMeta),
        Entry("binary", BinV("x", 1), Null),
        Entry("binary", BinV("x", 1), StrV("hi")),
        Entry("message", StrV("hi"), mockMeta),
        Entry("message", Undefined, Undefined)}
  \cup {Entry("message", d, Undefined) :
          d \in {StrV(""), StrV("hi"), StrV("33"), NumV(33), NumV(0), Null,
                 ObjV(<<>>)}}

InitXfer == Starts(Linked)

NextXfer ==
  \/ \E e \in XferMenu : Send("A", e.type, e.data, One("B"), e.meta, TRUE, MaxCalls)
  \/ \E i \in 1..MaxCalls : BlobReady(i)
  \/ Transmit("A", "B")
  \/ Deliver("A", "B")

SpecXfer == InitXfer /\ [][NextXfer]_vars

(***************************************************************************)
(* Observations used by the properties.                                    *)
(***************************************************************************)
Count(seq, x) == Cardinality({i \in DOMAIN seq : seq[i] = x})

NonDecreasing(ps) == \A i \in 1..(Len(ps) - 1) : ps[i] <= ps[i + 1]

\* What the receiver's completion callback f should be called with for call c.
Expected(c) ==
  [h |-> "f", type |-> c.type,
   value |-> IF c.isBinary THEN BytesV(c.data.b) ELSE c.data,
   id |-> c.self,
   meta |-> IF c.isBinary /\ Truthy(c.meta) THEN c.meta ELSE Undefined]

ExpectedAll == [i \in DOMAIN calls |-> Expected(calls[i])]

\* Every loop has handed over all its chunks and nothing is buffered, in
\* flight or awaiting a Blob read between from and to.
Settled(from, to) ==
  /\ buf[from][to] = <<>>
  /\ wire[from][to] = <<>>
  /\ blobs = <<>>
  /\ \A li \in DOMAIN loops :
       loops[li].st = "done" /\ loops[li].chunkN = calls[loops[li].call].chunkTotal

\* C1: round trip.  Whatever B's completion callback has been called with is
\* the payload (and, for binary, the metadata) of a send of A, no more often
\* than it was sent; once every frame has arrived each send has completed
\* exactly once with its own payload and metadata.
C1_RoundTrip ==
  LET got == log["B"].completed
  IN /\ \A k \in DOMAIN got : Count(got, got[k]) <= Count(ExpectedAll, got[k])
     /\ Settled("A", "B") =>
          /\ Len(got) = Len(calls)
          /\ \A i \in DOMAIN calls :
               Count(got, Expected(calls[i])) = Count(ExpectedAll, Expected(calls[i]))

C1_Witness ==
  /\ Settled("A", "B")
  /\ Len(calls) = 2
  /\ calls[1].chunkTotal = 3 /\ Truthy(calls[1].meta)
  /\ calls[2].data = StrV("")
  /\ Len(log["B"].completed) = 2
  /\ \E k \in 1..2 : log["B"].completed[k].value = StrV("")

\* The progress values A's per-call callback got for call ci to B, and those
\* B's action progress callback got for that transmission.
SenderProgress(ci) ==
  LET es == SelectSeq(log["A"].sent, LAMBDA e : e.call = ci /\ e.id = "B")
  IN [k \in DOMAIN es |-> es[k].p]

ReceiverProgress(ci) ==
  LET es == SelectSeq(log["B"].progress,
                      LAMBDA e : e.type = calls[ci].type /\ e.id = "A"
                                 /\ e.nonce = calls[ci].nonce)
  IN [k \in DOMAIN es |-> es[k].p]

\* C5: for each send to B the progress values of the sender's callback and of
\* the receiver's callback never decrease; once all its frames have arrived
\* both sequences have one value per fragment and end at 255 (1.0).
C5_Progress ==
  \A ci \in DOMAIN calls :
    LET sp == SenderProgress(ci)
        rp == ReceiverProgress(ci)
    IN /\ NonDecreasing(sp) /\ NonDecreasing(rp)
       /\ Len(rp) <= Len(sp)
       /\ Settled("A", "B") =>
            /\ Len(sp) = calls[ci].chunkTotal
            /\ Len(rp) = Len(sp)
            /\ sp[Len(sp)] = oneByteMax
            /\ rp[Len(rp)] = oneByteMax

C5_Witness ==
  /\ Settled("A", "B")
  /\ Len(calls) = 2
  /\ \E ci \in 1..2 :
       /\ Truthy(calls[ci].meta)
       /\ SenderProgress(ci) = <<85, 170, 255>>
       /\ ReceiverProgress(ci) = <<85, 170, 255>>

\* The frames of call ci, and the chunk indexes handed to id's channel for it.
FramesOf(ci) == [k \in 1..calls[ci].chunkTotal |-> chunkOf(calls[ci], k - 1)]

HandedTo(ci, id) ==
  LET es == SelectSeq(log[calls[ci].self].handed,
                      LAMBDA e : e.call = ci /\ e.id = id)
  IN [k \in DOMAIN es |-> es[k].i]

DataPayloads(frames) ==
  LET fs == SelectSeq(frames, LAMBDA f : ~Bit(f.tag, 1))
  IN [k \in DOMAIN fs |-> fs[k].payload]

\* C6: every send of S bytes with metadata presence m makes
\* max(1, ceil(S / 16369) + m) frames, each with a payload of at most 16369
\* bytes, the metadata alone in frame 0, the other payloads concatenated
\* being the S bytes; each target that stays registered is handed all of them.
C6_Frames ==
  \A ci \in DOMAIN calls :
    LET c == calls[ci]
        S == ByteLength(c.buffer)
        m == B2N(Truthy(c.meta))
        frames == FramesOf(ci)
    IN /\ Len(frames) = Max(1, CeilDiv(S, 16369) + m)
       /\ \A k \in DOMAIN frames : ByteLength(frames[k].payload) <= 16369
       /\ m = 1 => /\ frames[1].payload = encodeBytes(toJson(c.meta))
                   /\ \A k \in DOMAIN frames : Bit(frames[k].tag, 1) <=> k = 1
       /\ m = 0 => \A k \in DOMAIN frames : ~Bit(frames[k].tag, 1)
       /\ Norm(Flatten(DataPayloads(frames))) = Norm(c.buffer)
       /\ \A li \in DOMAIN loops :
            loops[li].call = ci /\ loops[li].st = "done"
            /\ loops[li].chunkN = c.chunkTotal
            => HandedTo(ci, loops[li].id) = [k \in 1..Len(frames) |-> k - 1]

\* The same with the metadata frame left out of the size limit (what the code
\* does for every payload and every metadata).
C6_DataFrames ==
  \A ci \in DOMAIN calls :
    LET c == calls[ci]
        S == ByteLength(c.buffer)
        m == B2N(Truthy(c.meta))
        frames == FramesOf(ci)
    IN /\ Len(frames) = Max(1, CeilDiv(S, 16369) + m)
       /\ \A k \in DOMAIN frames :
            ~Bit(frames[k].tag, 1) => ByteLength(frames[k].payload) <= 16369
       /\ Norm(Flatten(DataPayloads(frames))) = Norm(c.buffer)

(***************************************************************************)
(* The binary transfer of the test (part_000 181-248): one send of a large *)
(* payload with metadata from A to B.                                      *)
(***************************************************************************)
BigMenu ==
  {Entry("binary", BinV("6x50000", 6 * 50000), mockMeta),
   Entry("binary", BinV("20x50000", 20 * 50000), mockMeta)}

NextBig ==
  \/ \E e \in BigMenu : Send("A", e.type, e.data, All, e.meta, TRUE, 1)
  \/ Transmit("A", "B")
  \/ Deliver("A", "B")

SpecBig == InitXfer /\ [][NextBig]_vars

BigDone(size) ==
  /\ Len(calls) = 1
  /\ ByteLength(calls[1].buffer) = size
  /\ Settled("A", "B")

\* C7 as stated: the 300000-byte payload with metadata gives 63 progress
\* calls on each side, the last at 1.0, and the metadata arrives unchanged.
C7_Original ==
  BigDone(300000) =>
    /\ Len(SenderProgress(1)) = 63
    /\ Len(ReceiverProgress(1)) = 63
    /\ SenderProgress(1)[Len(SenderProgress(1))] = oneByteMax
    /\ Len(log["B"].completed) = 1
    /\ log["B"].completed[1].meta = mockMeta

\* C7 amended: 300000 bytes with metadata give 20 progress calls on each side
\* (19 data chunks and the metadata chunk); the 63 of the test are those of
\* 1000000 bytes (a 20-character id repeated 50000 times).  Either way the last
\* call is at 1.0 and the metadata arrives unchanged.
C7_Counts ==
  \A n \in {300000, 1000000} :
    BigDone(n) =>
      /\ Len(SenderProgress(1)) = (IF n = 300000 THEN 20 ELSE 63)
      /\ Len(ReceiverProgress(1)) = Len(SenderProgress(1))
      /\ SenderProgress(1)[Len(SenderProgress(1))] = oneByteMax
      /\ ReceiverProgress(1)[Len(ReceiverProgress(1))] = oneByteMax
      /\ Len(log["B"].completed) = 1
      /\ log["B"].completed[1] = Expected(calls[1])
      /\ log["B"].completed[1].meta = mockMeta

C7_Witness == BigDone(300000) /\ Len(ReceiverProgress(1)) = 20

(***************************************************************************)
(* Leaving.  Both rooms are constructed with the actions made and all      *)
(* callbacks set; the peers then find each other, send, leave and close in *)
(* any order.  A peer object that was killed is not offered again by       *)
(* onPeer.                                                                 *)
(***************************************************************************)
Ready ==
  LET s1 == Listening(Listening(NewRooms, "A", <<"message", "binary">>), "B",
                      <<"message", "binary">>)
  IN [s1 EXCEPT !.onPeerJoin = [p \in Ids |-> "user"],
                !.onPeerLeave = [p \in Ids |-> "user"]]

LeaveMenu ==
  {Entry("binary", BinV("big", 3 * chunkSize), Undefined),
   Entry("message", StrV("hi"), Undefined)}

InitLeave == Starts(Ready)

NextLeave ==
  \/ \E p \in Pair, q \in Pair : Join(p, q)
  \/ \E p \in Pair, e \in LeaveMenu :
       Send(p, e.type, e.data, All, e.meta, FALSE, MaxCalls)
  \/ \E p \in Pair : Leave(p)
  \/ \E p \in Pair : LeaveEnd(p)
  \/ \E p \in Pair, q \in Pair : Transmit(p, q)
  \/ \E p \in Pair, q \in Pair : Deliver(p, q)
  \/ \E p \in Pair, q \in Pair : RemoteClose(p, q)

SpecLeave == InitLeave /\ [][NextLeave]_vars

Happened(self, ev, id) ==
  \E i \in DOMAIN log[self].events :
    log[self].events[i].ev = ev /\ log[self].events[i].id = id

\* C2: a peer whose leave message was handled, or whose connection closed,
\* while it was registered has been reported to the peer-left callback exactly
\* once, however many of the two happened and in whichever order; no peer is
\* ever reported twice, and a reported peer is not in the registry.
C2_LeaveOnce ==
  \A a \in Ids, b \in Ids :
    /\ Count(log[a].left, b) <= 1
    /\ Count(log[a].left, b) = 1 => ~InPeerMap(State, a, b)
    /\ (Happened(a, "getLeave", b) \/ Happened(a, "onClose", b))
         => Count(log[a].left, b) = 1

C2_Witness ==
  /\ log["A"].events = << [ev |-> "getLeave", type |-> leaveType, id |-> "B"],
                          [ev |-> "onClose", type |-> "", id |-> "B"] >>
  /\ log["A"].left = <<"B">>
  /\ leaveSt["B"].st = "left"

\* Loop li can make no further step of its own accord: it has handed over
\* every chunk, or its target is out of the registry and the channel to it is
\* closed, so that no bufferedamountlow event will come.
LoopSettled(li) ==
  LET l == loops[li]
      c == calls[l.call]
  IN \/ l.chunkN = c.chunkTotal
     \/ ~InPeerMap(State, c.self, l.id) /\ conn[c.self][l.id] = "closed"

\* C4: a send whose every target has been handed all fragments or has been
\* removed from the registry has returned its completion signal; so the
\* broadcast of leave() has returned and leave() is not held up by it.
C4_SendReturns ==
  \A ci \in DOMAIN calls :
    (\A li \in DOMAIN loops : loops[li].call = ci => LoopSettled(li))
      => Returned(State, ci)

\* leave() of p waits for a broadcast none of whose loops can move.
LeaveHeld(p) ==
  /\ leaveSt[p].st = "leaving"
  /\ ~Returned(State, leaveSt[p].call)
  /\ \A li \in DOMAIN loops : loops[li].call = leaveSt[p].call => LoopSettled(li)

(***************************************************************************)
(* Pings between two joined peers.                                         *)
(***************************************************************************)
MaxPings == 2

InitPing == Starts(Linked)

NextPing ==
  \/ \E p \in Pair, q \in Pair : Ping(p, q, MaxPings)
  \/ \E p \in Pair, q \in Pair : Transmit(p, q)
  \/ \E p \in Pair, q \in Pair : Deliver(p, q)

SpecPing == InitPing /\ [][NextPing]_vars

\* The number of pings up to the k-th that have its caller and target.
PingRank(k) ==
  Cardinality({j \in 1..k : pings[j].self = pings[k].self /\ pings[j].id = pings[k].id})

PongsHandled(self, id) ==
  Count(log[self].events, [ev |-> "getPong", type |-> pongType, id |-> id])

\* C3: the n-th ping(id) of a peer has resolved once n pongs from id have
\* arrived, also when it was issued while an earlier ping(id) was outstanding.
C3_PingResolves ==
  \A k \in DOMAIN pings :
    PongsHandled(pings[k].self, pings[k].id) >= PingRank(k) => pings[k].resolved

(***************************************************************************)
(* Joining.  B has run the joinRoom of the test (part_000 70-79): "eager"  *)
(* made, its completion callback set, the join callback sending the        *)
(* payload.  A's application makes actions and sets callbacks step by      *)
(* step, under application names and under names of internal actions,      *)
(* while the peers find each other and B pings A.                          *)
(***************************************************************************)
JoinTypes == {"eager", pingType, leaveType}

Joiner(s, self) ==
  LET s1 == setOnComplete(appMakeAction(s, self, "eager"), self, "eager", "f")
  IN [s1 EXCEPT !.onPeerJoin[self] = "eager"]

InitJoin == Starts(Joiner(NewRooms, "B"))

NextJoin ==
  \/ \E t \in JoinTypes : MakeAction("A", t)
  \/ \E t \in JoinTypes : SetOnComplete("A", t, "f")
  \/ SetOnPeerJoin("A", "eager")
  \/ \E p \in Pair, q \in Pair : Join(p, q)
  \/ Ping("B", "A", MaxPings)
  \/ \E p \in Pair, q \in Pair : Transmit(p, q)
  \/ \E p \in Pair, q \in Pair : Deliver(p, q)

SpecJoin == InitJoin /\ [][NextJoin]_vars

EagerDone(from) ==
  [h |-> "f", type |-> "eager", value |-> eagerPayload, id |-> from,
   meta |-> Undefined]

\* The join callback of p fired for q and sent the eager payload.
EagerJoin(p, q) ==
  \E i \in DOMAIN log[p].joined : log[p].joined[i] = [id |-> q, cb |-> "eager"]

\* q had "eager" registered and its completion callback set when the frame
\* from p arrived.
Heard(q, p) ==
  /\ log[q].thrown = <<>>
  /\ [ev |-> "noOp", type |-> "eager", id |-> p] \notin
       {log[q].events[i] : i \in DOMAIN log[q].events}

\* C8: when the join callback fires for an id, the peer is registered and its
\* data handler is wired, so a send from inside the callback is handed to the
\* channel of that peer; the peer joined gets it as (33, id of the sender), once, when it
\* had made the action and set its callback before the frame arrived.
C8_EagerJoin ==
  \A p \in Ids, q \in Ids :
    /\ EagerJoin(p, q) =>
         \E i \in DOMAIN log[p].handed :
           /\ log[p].handed[i].id = q
           /\ calls[log[p].handed[i].call].type = "eager"
    /\ Count(log[q].completed, EagerDone(p)) <= 1
    /\ \A i \in DOMAIN log[q].completed :
         log[q].completed[i].type = "eager" /\ log[q].completed[i].id = p
           => log[q].completed[i] = EagerDone(p) /\ EagerJoin(p, q)
    /\ (EagerJoin(p, q) /\ Heard(q, p) /\ buf[p][q] = <<>> /\ wire[p][q] = <<>>)
         => Count(log[q].completed, EagerDone(p)) = 1

C8_Witness ==
  /\ EagerJoin("A", "B") /\ EagerJoin("B", "A")
  /\ log["B"].completed = <<EagerDone("A")>>
  /\ EagerDone("B") \in {log["A"].completed[i] : i \in DOMAIN log["A"].completed}

\* Every ping frame handled by p was answered by a pong send of p.
PingsAnswered(p) ==
  Cardinality({i \in DOMAIN log[p].events : log[p].events[i].type = pingType})
    = Cardinality({ci \in DOMAIN calls :
                     calls[ci].self = p /\ calls[ci].type = pongType})

\* C10: whatever makeAction and callback-setter calls the application makes,
\* it holds no handles of an internal action, the internal actions keep their
\* own completion handlers, and every received ping is answered with a pong.
C10_InternalsKept ==
  \A p \in Ids :
    /\ handles[p] \cap InternalTypes = {}
    /\ \A t \in InternalTypes : actions[p][t].onComplete = InternalHandler[t]
    /\ PingsAnswered(p)

(***************************************************************************)
(* Bursts.  A, joined to B, calls send on "binary" a number of times in    *)
(* one run (no event is handled in between): first a payload of more       *)
(* chunks than the channel takes at once, then one-byte payloads, each     *)
(* with its own content.  Then the channel drains; B handles each frame as *)
(* it leaves A's buffer (what B does has no effect on A here, so the time  *)
(* a frame spends in flight is left out).                                  *)
(***************************************************************************)
MaxBurst == 257

BurstSizes == {1, 2, MaxBurst}

burstPayload(k) ==
  IF k = 1 THEN BinV("big", (LowThreshold + 3) * chunkSize)
  ELSE BinV(NatText(k), 1)

\* The sends numbered lo to hi, one after the other; a send that throws
\* ends the run.
RECURSIVE burst(_, _, _)
burst(s, lo, hi) ==
  IF lo > hi THEN s
  ELSE IF lo = hi
    THEN send(s, "A", "binary", burstPayload(lo), One("B"), Undefined, FALSE)
  ELSE LET mid == (lo + hi) \div 2
           s1 == burst(s, lo, mid)
       IN IF s1.log["A"].thrown # s.log["A"].thrown THEN s1
          ELSE burst(s1, mid + 1, hi)

Burst(n) ==
  /\ calls = <<>>
  /\ Becomes(burst(State, 1, n))

\* The oldest buffered frame goes out and is handled by the receiver.
Relay(from, to) ==
  /\ conn[from][to] = "open"
  /\ buf[from][to] # <<>>
  /\ wire[from][to] = <<>>
  /\ from \in wired[to]
  /\ conn[to][from] = "open"
  /\ Becomes(deliver(transmit(State, from, to), from, to))

InitNonce == Starts(Linked)

NextNonce ==
  \/ \E n \in BurstSizes : Burst(n)
  \/ Relay("A", "B")

SpecNonce == InitNonce /\ [][NextNonce]_vars

SameAction(ci, cj) ==
  calls[ci].self = calls[cj].self /\ calls[ci].type = calls[cj].type

\* The number of sends on the action of call ci up to and including ci.
SendRank(ci) == Cardinality({cj \in 1..ci : SameAction(ci, cj)})

\* The places of the frames of call ci in the order A handed frames over.
Places(ci) == {i \in DOMAIN log["A"].handed : log["A"].handed[i].call = ci}

\* Calls ci and cj have the same reassembly key at B and frames of the one
\* went out between frames of the other.
InFlightTogether(ci, cj) ==
  /\ ci # cj /\ SameAction(ci, cj) /\ calls[ci].nonce = calls[cj].nonce
  /\ \E i \in Places(ci), j \in Places(cj), k \in Places(ci) : i < j /\ j < k

Collides(ci) ==
  \E cj \in DOMAIN calls : InFlightTogether(ci, cj) \/ InFlightTogether(cj, ci)

\* C9: the n-th send on an action carries nonce (n - 1) mod 256 on each of
\* its frames.  Sends fewer than 256 calls apart have different nonces, sends
\* 256 apart the same; a send completes at the receiver with its own payload,
\* exactly once, unless it was in flight together with the send 256 calls
\* away to the same peer, in which case neither arrives as sent.
C9_Nonce ==
  /\ \A ci \in DOMAIN calls : calls[ci].nonce = (SendRank(ci) - 1) % 256
  /\ \A i \in DOMAIN log["B"].progress :
       log["B"].progress[i].nonce = calls[log["A"].handed[i].call].nonce
  /\ Settled("A", "B") =>
       /\ \A ci \in DOMAIN calls, cj \in DOMAIN calls :
            (ci < cj /\ SameAction(ci, cj)) =>
              /\ cj - ci < 256 => calls[ci].nonce # calls[cj].nonce
              /\ cj - ci = 256 => calls[ci].nonce = calls[cj].nonce
       /\ \A ci \in DOMAIN calls :
            Count(log["B"].completed, Expected(calls[ci]))
              = IF Collides(ci) THEN 0 ELSE 1

C9_Witness ==
  /\ Settled("A", "B")
  /\ Len(calls) > 256
  /\ calls[257].nonce = calls[1].nonce
  /\ InFlightTogether(1, 257)
  /\ Count(log["B"].completed, Expected(calls[1])) = 0
  /\ Count(log["B"].completed, Expected(calls[257])) = 0
  /\ Count(log["B"].completed, Expected(calls[256])) = 1

(***************************************************************************)
(* Memoized actions and replaced callbacks.  A and B are joined with       *)
(* "message" and "binary" made and B's callbacks set; either application   *)
(* calls makeAction again, B sets its callbacks anew (f or g) at any time, *)
(* A sends.                                                                *)
(***************************************************************************)
\* room.makeAction(type) called whether or not the handles are held already.
MakeActionAgain(self, type) ==
  /\ type \in handles[self]
  /\ Becomes(appMakeAction(State, self, type))

MemoTypes == {"message", "binary"}

MemoMenu ==
  {Entry("binary", BinV("m", 2 * chunkSize + 1), mockMeta),
   Entry("message", StrV("hi"), Undefined)}

InitMemo == Starts(Linked)

NextMemo ==
  \/ \E p \in Pair, t \in MemoTypes : MakeActionAgain(p, t)
  \/ \E t \in MemoTypes, f \in UserCallbacks : SetOnComplete("B", t, f)
  \/ \E f \in UserCallbacks : SetOnProgress("B", "binary", f)
  \/ \E e \in MemoMenu : Send("A", e.type, e.data, One("B"), e.meta, FALSE, MaxCalls)
  \/ Transmit("A", "B")
  \/ Deliver("A", "B")

SpecMemo == InitMemo /\ [][NextMemo]_vars

\* What B's callbacks were called with, whichever callback it was.
Blind(entries) == [i \in DOMAIN entries |-> [entries[i] EXCEPT !.h = "f"]]

\* The entries added to a log in a step are called by the callback in place
\* before the step.
ByCurrent(field) ==
  \A i \in DOMAIN log["B"][field]' :
    i > Len(log["B"][field]) =>
      log["B"][field]'[i].h =
        IF field = "completed"
        THEN actions["B"][log["B"][field]'[i].type].onComplete
        ELSE actions["B"][log["B"][field]'[i].type].onProgress

\* C11: calling makeAction again for a name changes nothing: the callbacks set
\* stay and the sends on the name go on counting one nonce.  A callback set
\* replaces the one before: each completion (and progress report) goes to the
\* callback in place when the frame is handled, to it alone, and every send
\* completes exactly once, also when the callback was replaced while the
\* transmission was partly reassembled.
C11_Memoized ==
  /\ [](\A ci \in DOMAIN calls : calls[ci].nonce = (SendRank(ci) - 1) % 256)
  /\ [](LET got == Blind(log["B"].completed)
        IN /\ \A k \in DOMAIN got : Count(got, got[k]) <= Count(ExpectedAll, got[k])
           /\ Settled("A", "B") =>
                \A i \in DOMAIN calls :
                  Count(got, Expected(calls[i]))
                    = Count(ExpectedAll, Expected(calls[i])))
  /\ [][ByCurrent("completed") /\ ByCurrent("progress")]_vars

\* A transmission of four frames whose first frames were reported to g and
\* whose later ones to f, and which completed to g alone.
C11_Witness ==
  /\ Settled("A", "B")
  /\ Len(calls) = 1 /\ calls[1].chunkTotal = 4
  /\ Len(log["B"].progress) = 4
  /\ log["B"].progress[1].h = "g" /\ log["B"].progress[4].h = "f"
  /\ Len(log["B"].completed) = 1
  /\ log["B"].completed[1].h = "g"
  /\ actions["B"]["binary"].onComplete = "g"

(***************************************************************************)
(* One sender, two receivers.  A is joined with B and with C.  B has made  *)
(* only "binary", C both actions.  A sends to lists of targets, some with  *)
(* an id "Z" that no peer has; B may leave while A is sending.             *)
(***************************************************************************)
List(ids) == [kind |-> "list", ids |-> ids]

Fan ==
  LET s1 == MakeAll(NewRooms, "A", <<"message", "binary">>)
      s2 == setOnComplete(setOnProgress(appMakeAction(s1, "B", "binary"),
                                        "B", "binary", "g"), "B", "binary", "f")
      s3 == Listening(s2, "C", <<"message", "binary">>)
      s4 == [s3 EXCEPT !.onPeerLeave = [p \in Ids |-> "user"]]
  IN onPeer(onPeer(onPeer(onPeer(s4, "A", "B"), "B", "A"), "A", "C"), "C", "A")

MaxFan == 1

FanMenu ==
  {Entry("binary", BinV("fan", (LowThreshold + 2) * chunkSize), Undefined),
   Entry("message", StrV("hi"), Undefined)}

FanTargets == {List(<<"Z", "B", "C">>)}

InitFan == Starts(Fan)

NextFan ==
  \/ \E e \in FanMenu, t \in FanTargets :
       Send("A", e.type, e.data, t, e.meta, TRUE, MaxFan)
  \/ \E q \in {"B", "C"} : Transmit("A", q)
  \/ \E q \in {"B", "C"} : Deliver("A", q)
  \/ Leave("B")
  \/ LeaveEnd("B")
  \/ Transmit("B", "A")
  \/ Deliver("B", "A")
  \/ RemoteClose("A", "B")

SpecFan == InitFan /\ [][NextFan]_vars

\* The sends of A.
SendsOfA == {ci \in DOMAIN calls : calls[ci].self = "A"}

LoopsTo(q) == {li \in DOMAIN loops : loops[li].id = q /\ loops[li].call \in SendsOfA}

InOrder(is) == is = [k \in DOMAIN is |-> k - 1]

\* Nothing is buffered or in flight from A to q.
Drained(q) == buf["A"][q] = <<>> /\ wire["A"][q] = <<>>

\* C13: a target id without a peer gets a warning and nothing else: no error
\* is raised; each send has, for every id of its list, either a loop or a
\* warning; the fragments go to each target in index order; C, which stays
\* registered, has been handed every fragment once its channel has drained
\* and has then completed the send; and the send returns once its loops have
\* handed over all fragments.
C13_UnknownSkipped ==
  /\ log["A"].thrown = <<>>
  /\ Count(log["A"].warned, "Z") = Cardinality(SendsOfA)
  /\ LoopsTo("Z") = {}
  /\ \A q \in {"B", "C"} :
       Count(log["A"].warned, q) + Cardinality(LoopsTo(q)) = Cardinality(SendsOfA)
  /\ \A ci \in SendsOfA :
       /\ InOrder(HandedTo(ci, "B")) /\ InOrder(HandedTo(ci, "C"))
       /\ Drained("C") =>
            /\ Len(HandedTo(ci, "C")) = calls[ci].chunkTotal
            /\ Count(log["C"].completed, Expected(calls[ci]))
                 = Cardinality({cj \in SendsOfA :
                                  Expected(calls[cj]) = Expected(calls[ci])})
       /\ (\A li \in DOMAIN loops :
             loops[li].call = ci => loops[li].chunkN = calls[ci].chunkTotal)
            => Returned(State, ci)

C13_Witness ==
  /\ Len(calls) = 1 /\ calls[1].self = "A" /\ calls[1].chunkTotal > 1
  /\ log["A"].warned = <<"Z">>
  /\ Len(HandedTo(1, "B")) = calls[1].chunkTotal
  /\ Len(HandedTo(1, "C")) = calls[1].chunkTotal
  /\ Count(log["C"].completed, Expected(calls[1])) = 1
  /\ Count(log["B"].completed, Expected(calls[1])) = 1
  /\ Returned(State, 1)

ToPeer(entries, q) == SelectSeq(entries, LAMBDA e : e.id = q)

\* C16: while a target is out of A's registry no further fragment is handed to
\* its channel and no further progress is reported for it; no error is
\* raised; and C, which stays, is handed every fragment of the same send.
C16_RemovedTarget ==
  /\ [][\A q \in Ids :
          ~InPeerMap(State, "A", q) =>
            /\ ToPeer(log["A"].handed', q) = ToPeer(log["A"].handed, q)
            /\ ToPeer(log["A"].sent', q) = ToPeer(log["A"].sent, q)]_vars
  /\ [](log["A"].thrown = <<>>)
  /\ [](\A ci \in SendsOfA :
          Drained("C") => Len(HandedTo(ci, "C")) = calls[ci].chunkTotal)

\* B left after two of the fragments; the loop to B has ended without the
\* rest, the loop to C has handed over all.
C16_Witness ==
  /\ Len(calls) > 0 /\ calls[1].self = "A" /\ calls[1].chunkTotal > 1
  /\ ~InPeerMap(State, "A", "B")
  /\ Len(HandedTo(1, "B")) \in 1..(calls[1].chunkTotal - 1)
  /\ Len(HandedTo(1, "C")) = calls[1].chunkTotal
  /\ \A li \in DOMAIN loops : loops[li].call = 1 => loops[li].st = "done"

(***************************************************************************)
(* Frames of a type the receiver has no action for.  B, which has made     *)
(* only "binary", is joined with A and with C; both send it binary and     *)
(* "message" payloads, and B pings A meanwhile.                            *)
(***************************************************************************)
Stray == onPeer(onPeer(Fan, "B", "C"), "C", "B")

InitStray == Starts(Stray)

NextStray ==
  \/ \E p \in {"A", "C"}, e \in FanMenu :
       Send(p, e.type, e.data, One("B"), e.meta, FALSE, MaxCalls + 1)
  \/ \E p \in {"A", "C"} : Transmit(p, "B")
  \/ \E p \in {"A", "C"} : Deliver(p, "B")
  \/ Ping("B", "A", 1)
  \/ Transmit("B", "A")
  \/ Deliver("B", "A")

SpecStray == InitStray /\ [][NextStray]_vars

\* The frame at the head of the wire from `from` reaches B in this step and B
\* has no action of its type.
StrayFrom(from) ==
  /\ wire[from]["B"] # <<>>
  /\ wire'[from]["B"] = Tail(wire[from]["B"])
  /\ ~actions["B"][Head(wire[from]["B"]).type.name].reg

\* What B keeps and what it has told the application.
Kept ==
  <<peerMap["B"], pendingTransmissions["B"], pendingPongs["B"], actions["B"],
    log["B"].completed, log["B"].progress, log["B"].events, log["B"].joined,
    log["B"].left, buf["B"]>>

\* The sends of A and C on their own actions.
SentToB == {ci \in DOMAIN calls : calls[ci].type \in {"binary", "message"}}

StrayDrained ==
  /\ \A p \in {"A", "C"} : buf[p]["B"] = <<>> /\ wire[p]["B"] = <<>>
  /\ \A li \in DOMAIN loops : loops[li].st = "done"

\* C12: a frame of a type without an action raises one error at the receiver
\* and changes nothing else there: registry, reassembly store, pending pongs,
\* actions and callbacks stay as they are and nothing is called or sent;
\* errors are raised for such frames only; and the other frames are still
\* processed: once everything has arrived B has completed each binary send
\* exactly once and keeps no partial transmission.
C12_StrayFrame ==
  /\ [][/\ \A p \in {"A", "C"} :
             StrayFrom(p) => /\ Len(log["B"].thrown') = Len(log["B"].thrown) + 1
                             /\ Kept' = Kept
        /\ log["B"].thrown' # log["B"].thrown => \E p \in {"A", "C"} : StrayFrom(p)]_vars
  /\ [](StrayDrained =>
          /\ pendingTransmissions["B"] = << >>
          /\ Len(log["B"].thrown)
               = Cardinality({ci \in SentToB : calls[ci].type = "message"})
          /\ \A ci \in SentToB :
               Count(log["B"].completed, Expected(calls[ci]))
                 = IF calls[ci].type = "message" THEN 0
                   ELSE Cardinality({cj \in SentToB :
                                       Expected(calls[cj]) = Expected(calls[ci])}))

\* A "message" frame of C has raised an error at B while a binary send of A
\* was partly received and a pong was awaited; the binary send then completed.
C12_Witness ==
  /\ \E ci, cj \in SentToB :
       /\ calls[ci].self = "A" /\ calls[ci].type = "binary"
       /\ calls[cj].self = "C" /\ calls[cj].type = "message"
       /\ Len(log["B"].progress) \in 1..(calls[ci].chunkTotal - 1)
  /\ Len(log["B"].thrown) = 1
  /\ pendingPongs["B"]["A"] # 0
  /\ pendingTransmissions["B"] # << >>

\* The transmission stored under key k at B is made of the first n frames of
\* call ci, for some n short of all.
PartOf(k, ci) ==
  LET e == pendingTransmissions["B"][k]
      c == calls[ci]
  IN /\ k = <<c.self, c.type, c.nonce % 256>>
     /\ \E n \in 1..(c.chunkTotal - 1) :
          /\ e.chunks = DataPayloads(SubSeq(FramesOf(ci), 1, n))
          /\ e.meta = IF Truthy(c.meta) THEN c.meta ELSE Undefined

\* Frames of call 1, of call 2 and of call 1 again were handed to the channel
\* in that order.
Interleaved ==
  \E i, j, k \in DOMAIN log["A"].handed :
    /\ i < j /\ j < k
    /\ log["A"].handed[i].call = 1
    /\ log["A"].handed[j].call = 2
    /\ log["A"].handed[k].call = 1

\* C17: the fragments of a send go to the channel in index order; whatever
\* the interleaving of the sends in flight, each transmission B holds is made
\* of the leading fragments of one send only, each completion is that of a
\* send with its own payload and metadata, and when all frames have arrived
\* every send has completed once and no reassembly entry is left.
C17_Interleaved ==
  LET got == log["B"].completed
  IN /\ \A ci \in DOMAIN calls : InOrder(HandedTo(ci, "B"))
     /\ \A k \in DOMAIN pendingTransmissions["B"] :
          \E ci \in DOMAIN calls : PartOf(k, ci)
     /\ \A k \in DOMAIN got : \E ci \in DOMAIN calls : got[k] = Expected(calls[ci])
     /\ Len(got) <= Len(calls)
     /\ Settled("A", "B") =>
          /\ pendingTransmissions["B"] = << >>
          /\ \A ci \in DOMAIN calls :
               Count(got, Expected(calls[ci])) = Count(ExpectedAll, Expected(calls[ci]))

\* Two sends of the same action whose frames interleaved, the first of four
\* frames with metadata, both completed.
C17_Witness ==
  /\ Len(calls) = 2 /\ calls[1].type = calls[2].type
  /\ calls[1].chunkTotal = 4 /\ calls[1].meta = mockMeta
  /\ calls[2].chunkTotal > 1 /\ calls[2].data # calls[1].data
  /\ Interleaved
  /\ Settled("A", "B")
  /\ Len(log["B"].completed) = 2

\* The payload of call ci was serialized to JSON text (room.js 117-119).
Serialized(ci) == ~calls[ci].isBinary /\ TypeOf(calls[ci].data) # "string"

\* The frames of call ci handed to the channel so far, with their indices.
HandedFrames(ci) ==
  {<<i, FramesOf(ci)[i + 1]>> : i \in {HandedTo(ci, "B")[k] : k \in DOMAIN HandedTo(ci, "B")}}

\* The tag bits 0 to 2, the type field and the nonce of every frame handed to
\* the channel are as the header layout says.
C19_OtherFields ==
  \A ci \in DOMAIN calls : \A x \in HandedFrames(ci) :
    LET c == calls[ci]
        f == x[2]
    IN /\ Bit(f.tag, 0) <=> x[1] = c.chunkTotal - 1
       /\ Bit(f.tag, 1) <=> (x[1] = 0 /\ Truthy(c.meta))
       /\ Bit(f.tag, 2) <=> c.isBinary
       /\ f.type.name = c.type /\ Len(c.type) + f.type.pad = typeByteLimit
       /\ f.nonce = c.nonce % 256

\* C19: in every frame handed to the channel bit 3 of the tag is set exactly
\* when the payload was serialized to JSON text, and so is clear for strings
\* and for binary payloads; the other fields are as laid out.
C19_TagBits ==
  /\ C19_OtherFields
  /\ \A ci \in DOMAIN calls : \A x \in HandedFrames(ci) :
       Bit(x[2].tag, 3) <=> Serialized(ci)

\* Room p holds no partial transmission, no pending pong and no staged
\* metadata.
Cleared(p) ==
  /\ pendingTransmissions[p] = << >>
  /\ \A q \in Ids :
       /\ pendingPongs[p][q] = 0
       /\ pendingStreamMetas[p][q] = Undefined
       /\ pendingTrackMetas[p][q] = Undefined

\* When leave() has completed the registry is empty, the connections of the
\* room are closed and the self-leave hook has run once; and no connection
\* is closed by a room before its leave frame went to the channel.
C18_Emptied ==
  \A p \in Pair :
    /\ leaveSt[p].st = "left" =>
         /\ peerMap[p] = <<>>
         /\ log[p].selfLeft = 1
    /\ leaveSt[p].st # "left" => log[p].selfLeft = 0
    /\ (\E q \in Ids : conn[p][q] = "closed" /\ leaveSt[p].st # "left")
         => \E q \in Ids : conn[q][p] = "closed"

\* C18: leave() hands the leave frame to every registered peer, then waits,
\* then closes the peers; when it has completed the registry is empty, the
\* reassembly store, the pending pongs and the staged metadata are cleared,
\* and the self-leave hook has run exactly once.
C18_LeaveClears ==
  /\ C18_Emptied
  /\ \A p \in Pair : leaveSt[p].st = "left" => Cleared(p)

\* What p keeps concerns registered peers only.
StoresOf(p) ==
  /\ \A k \in DOMAIN pendingTransmissions[p] : InPeerMap(State, p, k[1])
  /\ \A q \in Ids : pendingPongs[p][q] # 0 => InPeerMap(State, p, q)

\* The same for the rooms that have not left themselves.
C20_StoresWhileIn == \A p \in Pair : leaveSt[p].st # "left" => StoresOf(p)

\* No callback of an action is called with the id of a peer reported as left.
C20_Callbacks ==
  [][\A p \in Pair, q \in Pair :
       Count(log[p].left, q) > 0 =>
         /\ ToPeer(log[p].completed', q) = ToPeer(log[p].completed, q)
         /\ ToPeer(log[p].progress', q) = ToPeer(log[p].progress, q)]_vars

\* C20: the reassembly store and the pending pongs hold entries for
\* registered ids only, and once a peer was reported as left no completion
\* or progress callback is called with its id.
C20_OnlyRegistered == [](\A p \in Pair : StoresOf(p)) /\ C20_Callbacks

(***************************************************************************)
(* Joining again.  The connection between A and B comes up, is reported    *)
(* (also more than once), fails on either side, and comes up anew under    *)
(* the same ids; C joins A and may leave.                                  *)
(***************************************************************************)
MaxJoins == 2

JoinsOf(p, q) == Cardinality({i \in DOMAIN log[p].joined : log[p].joined[i].id = q})

\* The connection of self to id fails: the peer object's onClose runs
\* (room.js 289).
Close(self, id) ==
  /\ conn[self][id] = "open"
  /\ Becomes(remoteClose(State, self, id))

\* After both ends of a connection have closed, the rooms still in get new
\* peer objects for each other.
Reconnect(self, id, max) ==
  /\ self # id
  /\ conn[self][id] = "closed" /\ conn[id][self] = "closed"
  /\ leaveSt[self].st = "idle" /\ leaveSt[id].st = "idle"
  /\ JoinsOf(self, id) < max /\ JoinsOf(id, self) < max
  /\ Becomes([State EXCEPT !.conn[self][id] = "new", !.conn[id][self] = "new",
                           !.wired[self] = @ \ {id}, !.wired[id] = @ \ {self},
                           !.buf[self][id] = <<>>, !.buf[id][self] = <<>>,
                           !.wire[self][id] = <<>>, !.wire[id][self] = <<>>])

NextRejoin ==
  \/ \E p \in Pair, q \in Pair : Join(p, q)
  \/ \E p \in Pair, q \in Pair : Close(p, q)
  \/ \E p \in Pair, q \in Pair : RemoteClose(p, q)
  \/ Reconnect("A", "B", MaxJoins)
  \/ Join("A", "C") \/ Join("C", "A")
  \/ Leave("C")
  \/ LeaveEnd("C")
  \/ Transmit("C", "A")
  \/ Deliver("C", "A")
  \/ RemoteClose("A", "C")

SpecRejoin == InitLeave /\ [][NextRejoin]_vars

\* C15: a join event for a registered id is not reported and changes nothing
\* in the registry: each room has every id at most once in its registry, and
\* has reported a join for it exactly once more than a leave while the id is
\* registered and exactly as often while it is not (a room that has left
\* itself drops its peers without a leave notification); so the joins and
\* the leaves reported for an id alternate.
C15_JoinOnce ==
  \A p \in Ids, q \in Ids :
    /\ Count(peerMap[p], q) <= 1
    /\ InPeerMap(State, p, q) => JoinsOf(p, q) = Count(log[p].left, q) + 1
    /\ ~InPeerMap(State, p, q) =>
         \/ JoinsOf(p, q) = Count(log[p].left, q)
         \/ leaveSt[p].st = "left" /\ JoinsOf(p, q) = Count(log[p].left, q) + 1

\* B has been reported to A as joined and as left twice each.
C15_Witness ==
  /\ JoinsOf("A", "B") = 2
  /\ Count(log["A"].left, "B") = 2
  /\ Happened("A", "onClose", "B")

(***************************************************************************)
(* Streams and tracks with metadata (room.js 278-287, 304-306, 338-358).   *)
(* A stream or track is known by a name; an addition travels to the other  *)
(* side by renegotiation, whose signals follow the frames already handed   *)
(* to the data channel, so it arrives once that channel has drained, and   *)
(* additions arrive in the order of the peer.addStream / addTrack calls.   *)
(* Each addition carries the metadata it was added with, which only the    *)
(* properties read.                                                        *)
(***************************************************************************)
MaxAdds == 2

\* room.js 338-345, 351-358: addStream / addTrack for one target id: with
\* metadata, the metadata is sent first and the rest waits for that send.
addMedia(s, self, kind, name, id, meta) ==
  LET item == [self |-> self, id |-> id, kind |-> kind, name |-> name, sent |-> meta]
  IN IF ~InPeerMap(s, self, id) THEN Note(s, self, "warned", id)
     ELSE IF Truthy(meta)
       THEN LET s1 == send(s, self,
                           IF kind = "stream" THEN streamMetaType ELSE trackMetaType,
                           meta, One(id), Undefined, FALSE)
            IN [s1 EXCEPT !.adds = Append(@, [item |-> item, call |-> Len(s1.calls),
                                             st |-> "await"])]
     ELSE [s EXCEPT !.adds = Append(@, [item |-> item, call |-> 0, st |-> "done"]),
                    !.media[self][id] = Append(@, item)]

\* room.js 344, 357: after the await, peer.addStream / peer.addTrack.
resumeAdd(s, i) ==
  LET item == s.adds[i].item
  IN [s EXCEPT !.adds[i].st = "done",
               !.media[item.self][item.id] = Append(@, item)]

\* room.js 280-287: onStream / onTrack: the callback gets the staged
\* metadata, which is then deleted.
onMedia(s, self, id) ==
  LET item == Head(s.media[id][self])
      isStream == item.kind = "stream"
      staged == IF isStream THEN s.pendingStreamMetas[self][id]
                ELSE s.pendingTrackMetas[self][id]
      s1 == [s EXCEPT !.media[id][self] = Tail(@)]
      s2 == IF (IF isStream THEN s.onPeerStream[self] ELSE s.onPeerTrack[self]) = "noOp"
            THEN s1
            ELSE Note(s1, self, "media",
                      [kind |-> item.kind, name |-> item.name, id |-> id,
                       meta |-> staged, sent |-> item.sent])
  IN IF isStream THEN [s2 EXCEPT !.pendingStreamMetas[self][id] = Undefined]
     ELSE [s2 EXCEPT !.pendingTrackMetas[self][id] = Undefined]

AddMedia(self, kind, name, id, meta, max) ==
  /\ Len(adds) < max
  /\ \A i \in DOMAIN adds : adds[i].item.name # name
  /\ Becomes(addMedia(State, self, kind, name, id, meta))

\* The additions resume in the order in which their sends have returned.
AddResume(i) ==
  /\ i \in DOMAIN adds
  /\ adds[i].st = "await"
  /\ Returned(State, adds[i].call)
  /\ \A j \in 1..(i - 1) : adds[j].st = "done"
  /\ Becomes(resumeAdd(State, i))

MediaArrive(from, to) ==
  /\ media[from][to] # <<>>
  /\ buf[from][to] = <<>> /\ wire[from][to] = <<>>
  /\ from \in wired[to] /\ conn[to][from] = "open"
  /\ Becomes(onMedia(State, to, from))

InitMedia ==
  Starts([Linked EXCEPT !.onPeerStream = [p \in Ids |-> "user"],
                        !.onPeerTrack = [p \in Ids |-> "user"]])

NextMedia ==
  \/ \E k \in {"stream", "track"}, n \in {"one", "two"},
        m \in {Undefined, mockMeta, ObjV(<<>>)} :
       AddMedia("A", k, n, "B", m, MaxAdds)
  \/ \E i \in 1..MaxAdds : AddResume(i)
  \/ Transmit("A", "B")
  \/ Deliver("A", "B")
  \/ MediaArrive("A", "B")

SpecMedia == InitMedia /\ [][NextMedia]_vars

\* An addition that is the only one A has made is reported with the metadata
\* it was added with.
C14_Single ==
  Len(adds) = 1 =>
    \A i \in DOMAIN log["B"].media :
      log["B"].media[i].meta = log["B"].media[i].sent

\* Streams added with metadata, each of them, are reported with their own.
C14_BothWithMeta ==
  (\A i \in DOMAIN adds : adds[i].item.kind = "stream" /\ Truthy(adds[i].item.sent))
    => \A i \in DOMAIN log["B"].media :
         log["B"].media[i].meta = log["B"].media[i].sent

\* C14: every stream and track B is told of comes with exactly the metadata
\* it was added with (none if it was added without).
C14_MetaAttached ==
  \A i \in DOMAIN log["B"].media :
    LET e == log["B"].media[i]
    IN e.meta = IF Truthy(e.sent) THEN e.sent ELSE Undefined

\* With one send in all, every fragment is handed to the channel while its
\* buffered amount is at or below the threshold.
C21_SingleSend ==
  Len(calls) <= 1 =>
    \A i \in DOMAIN log["A"].handed : ~log["A"].handed[i].above

\* C21: whenever a fragment is handed to a channel, the channel's buffered
\* amount is at or below its threshold, also when several loops waiting on
\* the channel are woken by one bufferedamountlow event.
C21_Backpressure ==
  \A i \in DOMAIN log["A"].handed : ~log["A"].handed[i].above

====
